---- MODULE Spec2Model ----
(***************************************************************************)
(* A model of convert_rst.py: the RST -> Markdown transpiler               *)
(* (rst_to_markdown), the Markdown -> notebook cell segmenter              *)
(* (markdown_to_notebook) and the batch driver (convert_file, main).       *)
(*                                                                         *)
(* Lines are real strings; the regular expressions and slices of the       *)
(* source are computed character by character.  Cursors are 0-based as in  *)
(* the source: At(ls, j) is the source's lines[j].  A TLA+ string literal  *)
(* cannot hold a backtick, so the model writes the backtick as the         *)
(* character Tick, which no rule of the source treats specially.           *)
(***************************************************************************)
EXTENDS Integers, Sequences, FiniteSets, TLC

VARIABLES
    lines,          \* rst_to_markdown: the document, tabs expanded, split in lines
    i,              \* rst_to_markdown: the cursor
    result,         \* rst_to_markdown: the output buffer
    pc,             \* rst_to_markdown: "loop" in the while loop, "done" after return
    markdown,       \* rst_to_markdown: the returned text
    branch,         \* which branch of the loop body the if-chain selects at the cursor
    handler,        \* which branch of the loop body ran in the last iteration
    start,          \* the cursor at the start of the last iteration
    rlen,           \* Len(result) at the start of the last iteration
    nb_lines,       \* markdown_to_notebook: lines, the Markdown text split in lines
    nb_i,           \* markdown_to_notebook: i, the cursor
    nb_title,       \* markdown_to_notebook: title, the fallback title
    cells,          \* markdown_to_notebook: the (type, content) cells found so far
    current_lines,  \* markdown_to_notebook: the lines collected for the next cell
    in_code_block,
    code_lang,
    code_fence_pattern,
    in_quote,
    quote_code_block,
    nb_cells,       \* markdown_to_notebook: nb.cells, the cells of the notebook returned
    nb_pc,          \* markdown_to_notebook: "loop", "flush", "combine", "done"
    nb_branch,      \* which branch of the loop body ran in the last iteration
    content,        \* markdown_to_notebook: content, the text of the last cell built
    closed_lang,    \* code_lang as it was when the last fence was closed
    docs,           \* main: per document of sorted(rst_files), the step that raises
    idx,            \* main: how many documents the for loop has finished
    cf_pc,          \* convert_file: the statement the current call is at
    md_file,        \* per document, the state of its Markdown file on disk
    nb_file,        \* per document, the state of its notebook file on disk
    returned,       \* per finished document, what convert_file returned
    success_count,
    fail_count,
    main_pc         \* main: "loop", "done", or "crashed" by an uncaught exception

rstVars == <<lines, i, result, pc, markdown, branch, handler, start, rlen>>

nbVars ==
    <<nb_lines, nb_i, nb_title, cells, current_lines, in_code_block, code_lang,
      code_fence_pattern, in_quote, quote_code_block, nb_cells, nb_pc, nb_branch,
      content, closed_lang>>

batchVars ==
    <<docs, idx, cf_pc, md_file, nb_file, returned, success_count, fail_count, main_pc>>

vars == <<rstVars, nbVars, batchVars>>

(***************************************************************************)
(* Strings.                                                                *)
(***************************************************************************)
\* the backtick
Tick == "$"

\* the Markdown fence ```
Fence == Tick \o Tick \o Tick

Char(s, k) == SubSeq(s, k, k)

\* Python's s[n:] for 0 <= n
From(s, n) == SubSeq(s, n + 1, Len(s))

\* Python's s[:n] for 0 <= n
Upto(s, n) == SubSeq(s, 1, IF n < Len(s) THEN n ELSE Len(s))

StartsWith(s, p) == Len(s) >= Len(p) /\ SubSeq(s, 1, Len(p)) = p

EndsWith(s, p) == Len(s) >= Len(p) /\ SubSeq(s, Len(s) - Len(p) + 1, Len(s)) = p

\* the characters str.strip() and the regex class \s remove
WsChars == {" ", "\t", "\n"}

IsWs(c) == c \in WsChars

\* how many characters of s, from position k on, are in the set cs
RECURSIVE RunFrom(_, _, _)
RunFrom(s, k, cs) ==
    IF k > Len(s) \/ Char(s, k) \notin cs THEN 0 ELSE 1 + RunFrom(s, k + 1, cs)

\* how many characters of s, from position k back, are in the set cs
RECURSIVE RunBack(_, _, _)
RunBack(s, k, cs) ==
    IF k < 1 \/ Char(s, k) \notin cs THEN 0 ELSE 1 + RunBack(s, k - 1, cs)

\* how many characters of s, from position k on, are not in the set cs
RECURSIVE RunNotFrom(_, _, _)
RunNotFrom(s, k, cs) ==
    IF k > Len(s) \/ Char(s, k) \in cs THEN 0 ELSE 1 + RunNotFrom(s, k + 1, cs)

LeadingWs(s) == RunFrom(s, 1, WsChars)

TrailingWs(s) == RunBack(s, Len(s), WsChars)

LStrip(s) == From(s, LeadingWs(s))

RStrip(s) == Upto(s, Len(s) - TrailingWs(s))

Strip(s) == RStrip(LStrip(s))

\* the regex class \w
WordChars ==
    { "a", "b", "c", "d", "e", "f", "g", "h", "i", "j", "k", "l", "m",
      "n", "o", "p", "q", "r", "s", "t", "u", "v", "w", "x", "y", "z",
      "A", "B", "C", "D", "E", "F", "G", "H", "I", "J", "K", "L", "M",
      "N", "O", "P", "Q", "R", "S", "T", "U", "V", "W", "X", "Y", "Z",
      "0", "1", "2", "3", "4", "5", "6", "7", "8", "9", "_" }

IsWord(c) == c \in WordChars

\* length of the longest prefix of s made of characters of the set cs
Run(s, cs) == RunFrom(s, 1, cs)

\* length of the longest prefix of s with no character of the set cs
RunNot(s, cs) == RunNotFrom(s, 1, cs)

\* the first position from k on where s holds the text p, 0 when there is none
RECURSIVE Find(_, _, _)
Find(s, p, k) ==
    IF k + Len(p) - 1 > Len(s) THEN 0
    ELSE IF SubSeq(s, k, k + Len(p) - 1) = p THEN k
    ELSE Find(s, p, k + 1)

Contains(s, c) == \E k \in 1..Len(s) : Char(s, k) = c

\* "c" * n
RECURSIVE Repeat(_, _)
Repeat(c, n) == IF n <= 0 THEN "" ELSE c \o Repeat(c, n - 1)

\* sep.join(ss)
RECURSIVE Join(_, _)
Join(ss, sep) ==
    IF ss = << >> THEN ""
    ELSE IF Len(ss) = 1 THEN ss[1]
    ELSE ss[1] \o sep \o Join(Tail(ss), sep)

\* s.split("\n")
RECURSIVE SplitLines(_)
SplitLines(s) ==
    LET n == RunNot(s, {"\n"})
    IN  IF n = Len(s) THEN <<s>>
        ELSE <<Upto(s, n)>> \o SplitLines(From(s, n + 1))

\* str.expandtabs(tab_size), col the column reached so far
RECURSIVE ExpandFrom(_, _, _)
ExpandFrom(s, col, tab_size) ==
    LET n == RunNot(s, {"\t", "\n"})
        pad == tab_size - ((col + n) % tab_size)
    IN  IF n = Len(s) THEN s
        ELSE IF Char(s, n + 1) = "\t"
        THEN Upto(s, n) \o Repeat(" ", pad)
                 \o ExpandFrom(From(s, n + 1), col + n + pad, tab_size)
        ELSE Upto(s, n) \o "\n" \o ExpandFrom(From(s, n + 1), 0, tab_size)

TabSize == 4

expand_tabs(s) == ExpandFrom(s, 0, TabSize)

(***************************************************************************)
(* rst_to_markdown: the per-line quantities of the loop head.              *)
(***************************************************************************)
At(ls, j) == ls[j + 1]

Blank(l) == Strip(l) = ""

\* len(line) - len(line.lstrip()) if line.strip() else 0
Indent(l) == IF Blank(l) THEN 0 ELSE LeadingWs(l)

\* the regex prefix \.\.\s+ and what follows it
IsDir(st) == StartsWith(st, "..") /\ LeadingWs(From(st, 2)) >= 1

DirRest(st) == LStrip(From(st, 2))

DirIs(st, names) == IsDir(st) /\ \E n \in names : StartsWith(DirRest(st), n \o "::")

(***************************************************************************)
(* rst_to_markdown: which branch of the loop body owns a line.  st is the  *)
(* stripped line.                                                          *)
(***************************************************************************)
IsTestSkip(st) == DirIs(st, {"testsetup", "testcleanup", "testoutput"})

IsHighlight(st) == DirIs(st, {"highlight"})

\* \.\.\s+only::\s+html
IsOnlyHtml(st) ==
    /\ DirIs(st, {"only"})
    /\ LET r == From(DirRest(st), Len("only::"))
       IN  LeadingWs(r) >= 1 /\ StartsWith(LStrip(r), "html")

IsIndex(st) == DirIs(st, {"index"})

\* \.\.\s+_[\w-]+:\s*$
IsTarget(st) ==
    /\ IsDir(st)
    /\ StartsWith(DirRest(st), "_")
    /\ LET r == From(DirRest(st), 1)
           m == Run(r, WordChars \cup {"-"})
       IN  m >= 1 /\ StartsWith(From(r, m), ":") /\ Strip(From(r, m + 1)) = ""

TitleChars == {"=", "-", "~", "*", "+", "^", "\"", "'"}

\* len(set(u)) == 1
OneChar(u) == u # "" /\ \A k \in 1..Len(u) : Char(u, k) = Char(u, 1)

IsUnderline(u) == OneChar(u) /\ Char(u, 1) \in TitleChars /\ Len(u) >= 3

IsTitle(ls, j) ==
    /\ j + 1 < Len(ls)
    /\ Strip(At(ls, j)) # ""
    /\ Strip(At(ls, j + 1)) # ""
    /\ IsUnderline(Strip(At(ls, j + 1)))

IsTestCode(st) == DirIs(st, {"testcode"})

IsCodeBlock(st) == DirIs(st, {"code-block"})

IsLiteral(st) == EndsWith(st, "::") /\ ~StartsWith(st, "..")

\* \.\.\s+figure::\s*(.+)
IsFigure(st) == DirIs(st, {"figure"}) /\ LStrip(From(DirRest(st), Len("figure::"))) # ""

AdmonitionNames == {"hint", "note", "warning", "tip", "important"}

IsAdmonition(st) == DirIs(st, AdmonitionNames)

\* \.\.\s+\w+:: and not stripped.startswith(".. code")
IsUnknownDirective(st) ==
    /\ IsDir(st)
    /\ LET n == Run(DirRest(st), WordChars)
       IN  n >= 1 /\ StartsWith(From(DirRest(st), n), "::")
    /\ ~StartsWith(st, ".. code")

\* the if-chain of the loop body, first match wins
Owner(ls, j) ==
    LET st == Strip(At(ls, j))
    IN  IF IsTestSkip(st) THEN "testskip"
        ELSE IF IsHighlight(st) THEN "highlight"
        ELSE IF IsOnlyHtml(st) THEN "only"
        ELSE IF IsIndex(st) THEN "index"
        ELSE IF IsTarget(st) THEN "target"
        ELSE IF IsTitle(ls, j) THEN "title"
        ELSE IF IsTestCode(st) THEN "testcode"
        ELSE IF IsCodeBlock(st) THEN "codeblock"
        ELSE IF IsLiteral(st) THEN "literal"
        ELSE IF IsFigure(st) THEN "figure"
        ELSE IF IsAdmonition(st) THEN "admonition"
        ELSE IF IsUnknownDirective(st) THEN "unknown"
        ELSE "plain"

(***************************************************************************)
(* rst_to_markdown: the skip handlers.  Each Step gives the cursor and the *)
(* output buffer the branch leaves, from the cursor j and buffer res it    *)
(* starts with.                                                            *)
(***************************************************************************)
\* the break test of the testsetup/testcleanup/testoutput skip loop
\* the break test without its last conjunct
TestSkipStopsAtDedent(next_line, base_indent) ==
    /\ Strip(next_line) # ""
    /\ Indent(next_line) <= base_indent

TestSkipStops(next_line, base_indent) ==
    /\ Strip(next_line) # ""
    /\ Indent(next_line) <= base_indent
    /\ ~StartsWith(next_line, " ")

RECURSIVE TestSkipScan(_, _, _)
TestSkipScan(ls, j, base_indent) ==
    IF j < Len(ls) /\ ~TestSkipStops(At(ls, j), base_indent)
    THEN TestSkipScan(ls, j + 1, base_indent)
    ELSE j

TestSkipStep(ls, j, res) ==
    [i |-> TestSkipScan(ls, j + 1, Indent(At(ls, j))), result |-> res]

RECURSIVE HighlightScan(_, _)
HighlightScan(ls, j) ==
    IF j < Len(ls) /\ (Strip(At(ls, j)) = "" \/ StartsWith(At(ls, j), " "))
    THEN IF Strip(At(ls, j)) # "" /\ ~StartsWith(Strip(At(ls, j)), ":")
         THEN j
         ELSE HighlightScan(ls, j + 1)
    ELSE j

HighlightStep(ls, j, res) == [i |-> HighlightScan(ls, j + 1), result |-> res]

\* the break test of the only:: html skip loop
OnlyStops(next_line, base_indent) ==
    /\ Strip(next_line) # ""
    /\ Indent(next_line) <= base_indent
    /\ ~StartsWith(next_line, " ")

RECURSIVE OnlyScan(_, _, _)
OnlyScan(ls, j, base_indent) ==
    IF j < Len(ls) /\ ~OnlyStops(At(ls, j), base_indent)
    THEN OnlyScan(ls, j + 1, base_indent)
    ELSE j

OnlyStep(ls, j, res) == [i |-> OnlyScan(ls, j + 1, Indent(At(ls, j))), result |-> res]

RECURSIVE IndexScan(_, _)
IndexScan(ls, j) ==
    IF j < Len(ls) /\ (Strip(At(ls, j)) = "" \/ StartsWith(At(ls, j), " "))
    THEN IndexScan(ls, j + 1)
    ELSE j

IndexStep(ls, j, res) == [i |-> IndexScan(ls, j + 1), result |-> res]

\* a skip that leaves the cursor on the target line
TargetStepStuck(ls, j, res) == [i |-> j, result |-> res]

TargetStep(ls, j, res) == [i |-> j + 1, result |-> res]

\* the break test of the unknown-directive skip loop
UnknownStops(next_line, indent) == Strip(next_line) # "" /\ Indent(next_line) <= indent

RECURSIVE UnknownScan(_, _, _)
UnknownScan(ls, j, indent) ==
    IF j < Len(ls) /\ ~UnknownStops(At(ls, j), indent)
    THEN UnknownScan(ls, j + 1, indent)
    ELSE j

UnknownStep(ls, j, res) ==
    [i |-> UnknownScan(ls, j + 1, Indent(At(ls, j))), result |-> res]

(***************************************************************************)
(* rst_to_markdown: titles.                                                *)
(***************************************************************************)
\* a level table with the entries of * and = exchanged
LevelOfSwapped(c) ==
    IF c = "*" THEN 2
    ELSE IF c = "=" THEN 1
    ELSE IF c = "-" THEN 3
    ELSE IF c = "~" THEN 4
    ELSE IF c = "+" THEN 5
    ELSE IF c = "^" THEN 6
    ELSE 2

\* level_map.get(underline_char, 2)
LevelOf(c) ==
    IF c = "*" THEN 1
    ELSE IF c = "=" THEN 2
    ELSE IF c = "-" THEN 3
    ELSE IF c = "~" THEN 4
    ELSE IF c = "+" THEN 5
    ELSE IF c = "^" THEN 6
    ELSE 2

\* an overline test that never finds one
IsOverlineNever(res, c) == FALSE

\* an overline test that takes any last emitted line
IsOverlineAlways(res, c) == res # << >>

\* the last emitted line is an overline of the character c
IsOverline(res, c) ==
    /\ res # << >>
    /\ Strip(res[Len(res)]) # ""
    /\ OneChar(Strip(res[Len(res)]))
    /\ Char(Strip(res[Len(res)]), 1) = c

TitleStep(ls, j, res) ==
    LET title == Strip(At(ls, j))
        underline_char == Char(Strip(At(ls, j + 1)), 1)
        over == IsOverline(res, underline_char)
        level == IF over THEN 1 ELSE LevelOf(underline_char)
        kept == IF over THEN SubSeq(res, 1, Len(res) - 1) ELSE res
    IN  [i |-> j + 2,
         result |-> kept \o <<"", Repeat("#", level) \o " " \o title, "">>]

(***************************************************************************)
(* rst_to_markdown: testcode and code-block.                               *)
(***************************************************************************)
\* while i < len(lines) and not lines[i].strip(): i += 1
RECURSIVE SkipBlank(_, _)
SkipBlank(ls, j) ==
    IF j < Len(ls) /\ Strip(At(ls, j)) = "" THEN SkipBlank(ls, j + 1) ELSE j

\* the same, skipping the option lines too
RECURSIVE SkipBlankAndOptions(_, _)
SkipBlankAndOptions(ls, j) ==
    IF j < Len(ls) /\ (Strip(At(ls, j)) = "" \/ StartsWith(Strip(At(ls, j)), ":"))
    THEN SkipBlankAndOptions(ls, j + 1)
    ELSE j

DefaultCodeIndent == 4

CodeBaseIndent(ls, j) ==
    IF j < Len(ls) /\ Strip(At(ls, j)) # ""
    THEN LeadingWs(At(ls, j))
    ELSE DefaultCodeIndent

\* a dedent that strips all the indentation of the line
DedentedAll(code_line, b) == LStrip(code_line)

\* code_line[b:] if len(code_line) > b else code_line.lstrip()
Dedented(code_line, b) ==
    IF Len(code_line) > b THEN From(code_line, b) ELSE LStrip(code_line)

\* the break test of the collecting loops
CodeStops(code_line, code_base_indent) ==
    Strip(code_line) # "" /\ Indent(code_line) < code_base_indent

\* the collecting loop, appending to out; the same loop collects the body
\* of testcode, code-block, a literal block and a testcode nested in an
\* admonition
RECURSIVE CollectCode(_, _, _, _)
CollectCode(ls, j, code_base_indent, out) ==
    IF j < Len(ls) /\ ~CodeStops(At(ls, j), code_base_indent)
    THEN CollectCode(ls, j + 1, code_base_indent,
                     Append(out, IF Strip(At(ls, j)) # ""
                                 THEN Dedented(At(ls, j), code_base_indent)
                                 ELSE ""))
    ELSE [i |-> j, out |-> out]

\* while result and not result[-1].strip() and result[-1] != "```python"
RECURSIVE PopBlankTestCode(_)
PopBlankTestCode(res) ==
    IF res # << >> /\ Strip(res[Len(res)]) = "" /\ res[Len(res)] # Fence \o "python"
    THEN PopBlankTestCode(SubSeq(res, 1, Len(res) - 1))
    ELSE res

\* while result and not result[-1].strip(): result.pop()
RECURSIVE PopBlank(_)
PopBlank(res) ==
    IF res # << >> /\ Strip(res[Len(res)]) = ""
    THEN PopBlank(SubSeq(res, 1, Len(res) - 1))
    ELSE res

\* where the testcode handler starts to look for the body
TestCodeBodyStart(ls, j) == SkipBlank(ls, j + 1)

TestCodeStep(ls, j, res) ==
    LET b == TestCodeBodyStart(ls, j)
        c == CollectCode(ls, b, CodeBaseIndent(ls, b), res \o <<"", Fence \o "python">>)
    IN  [i |-> c.i, result |-> PopBlankTestCode(c.out) \o <<Fence, "">>]

\* code_block_match.group(1) or "python"
CodeBlockLang(st) ==
    LET r == LStrip(From(DirRest(st), Len("code-block::")))
        n == Run(r, WordChars)
    IN  IF n = 0 THEN "python" ELSE Upto(r, n)

CodeBlockBodyStart(ls, j) == SkipBlankAndOptions(ls, j + 1)

CodeBlockStep(ls, j, res) ==
    LET lang == CodeBlockLang(Strip(At(ls, j)))
        b == CodeBlockBodyStart(ls, j)
        c == CollectCode(ls, b, CodeBaseIndent(ls, b), res \o <<"", Fence \o lang>>)
    IN  [i |-> c.i, result |-> PopBlank(c.out) \o <<Fence, "">>]

(***************************************************************************)
(* rst_to_markdown: literal blocks.                                        *)
(***************************************************************************)
\* where ^ matches under re.MULTILINE: offsets into s
LineStarts(s) == {0} \cup {k \in 1..Len(s) : Char(s, k) = "\n"}

FirstLine(t) == Upto(t, RunNot(t, {"\n"}))

\* ^\[.*\]
IniSectionAt(t) == StartsWith(t, "[") /\ Contains(FirstLine(t), "]")

\* ^;\s*
IniCommentAt(t) == StartsWith(t, ";")

\* ^\w+\s*=\s*\w
KeyValueAt(t) ==
    LET n == Run(t, WordChars)
        r == LStrip(From(t, n))
        v == LStrip(From(r, 1))
    IN  n >= 1 /\ StartsWith(r, "=") /\ v # "" /\ IsWord(Char(v, 1))

PyKeywords == {"def", "class", "import", "from", "if", "for", "while", "try", "with"}

\* ^\s*(def|class|import|from|if|for|while|try|with)\s
PyKeywordAt(t) ==
    LET r == LStrip(t)
    IN  \E kw \in PyKeywords :
            StartsWith(r, kw) /\ Len(r) > Len(kw) /\ IsWs(Char(r, Len(kw) + 1))

\* the language a literal block is tagged with
DetectLang(code_content) ==
    LET ts == {From(code_content, o) : o \in LineStarts(code_content)}
    IN  IF /\ \E t \in ts : IniSectionAt(t) \/ IniCommentAt(t) \/ KeyValueAt(t)
           /\ ~\E t \in ts : PyKeywordAt(t)
        THEN "ini"
        ELSE "python"

\* a literal handler that emits the text before :: and a colon even when
\* there is no text, and never takes a block
LiteralStepColonAlways(ls, j, res) ==
    LET st == Strip(At(ls, j))
    IN  [i |-> SkipBlank(ls, j + 1),
         result |-> Append(res, RStrip(Upto(st, Len(st) - 2)) \o ":")]

LiteralStep(ls, j, res) ==
    LET st == Strip(At(ls, j))
        prefix == RStrip(Upto(st, Len(st) - 2))
        res1 == IF prefix # "" THEN Append(res, prefix \o ":") ELSE res
        b == SkipBlank(ls, j + 1)
    IN  IF b < Len(ls) /\ (StartsWith(At(ls, b), "  ") \/ StartsWith(At(ls, b), "\t"))
        THEN LET c == CollectCode(ls, b, LeadingWs(At(ls, b)), << >>)
                 code_lines == PopBlank(c.out)
                 lang == DetectLang(Join(code_lines, "\n"))
             IN  [i |-> c.i,
                  result |-> res1 \o <<"", Fence \o lang>> \o code_lines \o <<Fence, "">>]
        ELSE [i |-> b, result |-> res1]

(***************************************************************************)
(* rst_to_markdown: figures.                                               *)
(***************************************************************************)
RECURSIVE FigureScan(_, _, _)
FigureScan(ls, j, caption) ==
    IF j < Len(ls) /\ (StartsWith(At(ls, j), "   ") \/ Strip(At(ls, j)) = "")
    THEN LET option_line == Strip(At(ls, j))
         IN  FigureScan(ls, j + 1,
                        IF option_line # "" /\ ~StartsWith(option_line, ":")
                        THEN option_line
                        ELSE caption)
    ELSE [i |-> j, caption |-> caption]

FigureStep(ls, j, res) ==
    LET img_path == Strip(From(DirRest(Strip(At(ls, j))), Len("figure::")))
        f == FigureScan(ls, j + 1, "")
    IN  [i |-> f.i,
         result |-> res \o <<"", "![" \o f.caption \o "](" \o img_path \o ")">>
                        \o (IF f.caption # "" THEN <<"*" \o f.caption \o "*">> ELSE << >>)
                        \o <<"">>]

(***************************************************************************)
(* rst_to_markdown: admonitions.                                           *)
(***************************************************************************)
\* directive_match.group(1)
AdmonitionType(st) ==
    CHOOSE n \in AdmonitionNames : StartsWith(DirRest(st), n \o "::")

\* str.capitalize() of the five names
Capitalized(n) ==
    IF n = "hint" THEN "Hint"
    ELSE IF n = "note" THEN "Note"
    ELSE IF n = "warning" THEN "Warning"
    ELSE IF n = "tip" THEN "Tip"
    ELSE "Important"

\* the break test of the admonition body loop
AdmonitionStops(content_line, base_indent) ==
    /\ Strip(content_line) # ""
    /\ Indent(content_line) < base_indent
    /\ ~StartsWith(content_line, " ")

\* the body loop: the cursor, the text lines and the code blocks it leaves
RECURSIVE AdmonitionScan(_, _, _, _, _)
AdmonitionScan(ls, j, base_indent, text_lines, code_blocks) ==
    IF j < Len(ls) /\ ~AdmonitionStops(At(ls, j), base_indent)
    THEN LET content_line == At(ls, j)
             content_stripped == Strip(content_line)
         IN  IF IsTestCode(content_stripped)
             THEN LET b == SkipBlank(ls, j + 1)
                      c == CollectCode(ls, b, CodeBaseIndent(ls, b), << >>)
                      code_lines == PopBlank(c.out)
                  IN  AdmonitionScan(ls, c.i, base_indent, text_lines,
                                     IF code_lines # << >>
                                     THEN Append(code_blocks, Join(code_lines, "\n"))
                                     ELSE code_blocks)
             ELSE AdmonitionScan(ls, j + 1, base_indent,
                                 Append(text_lines,
                                        IF content_stripped # ""
                                        THEN IF Len(content_line) > base_indent
                                             THEN From(content_line, base_indent)
                                             ELSE content_stripped
                                        ELSE ""),
                                 code_blocks)
    ELSE [i |-> j, text_lines |-> text_lines, code_blocks |-> code_blocks]

\* the lines of ss that are not blank, in order
RECURSIVE NonBlank(_)
NonBlank(ss) ==
    IF ss = << >> THEN << >>
    ELSE (IF Strip(ss[1]) # "" THEN <<ss[1]>> ELSE << >>) \o NonBlank(Tail(ss))

\* the fences emitted after the label, one per nested code block
RECURSIVE CodeBlockFences(_)
CodeBlockFences(code_blocks) ==
    IF code_blocks = << >> THEN << >>
    ELSE <<Fence \o "python", code_blocks[1], Fence, "">> \o CodeBlockFences(Tail(code_blocks))

AdmonitionIndent == 3

\* an output with the fences of the nested code blocks before the label
AdmonitionOutputFencesFirst(label, code_blocks) ==
    CodeBlockFences(code_blocks) \o <<"", label, "">>

\* what the handler appends: the label between blank lines, then the fences
AdmonitionOutput(label, code_blocks) ==
    <<"", label, "">> \o CodeBlockFences(code_blocks)

AdmonitionStep(ls, j, res) ==
    LET st == Strip(At(ls, j))
        directive_type == AdmonitionType(st)
        inline_content == Strip(From(DirRest(st), Len(directive_type) + 2))
        a == AdmonitionScan(ls, j + 1, Indent(At(ls, j)) + AdmonitionIndent, << >>, << >>)
        text_lines == PopBlank(a.text_lines)
        hint_text == IF text_lines # << >>
                     THEN (IF inline_content # "" THEN inline_content \o " " ELSE "")
                              \o Join(NonBlank(text_lines), " ")
                     ELSE inline_content
        label == IF hint_text # ""
                 THEN "**" \o Capitalized(directive_type) \o ":** " \o hint_text
                 ELSE "**" \o Capitalized(directive_type) \o "**"
    IN  [i |-> a.i, result |-> res \o AdmonitionOutput(label, a.code_blocks)]

(***************************************************************************)
(* rst_to_markdown: the inline rewriting of a plain line, an ordered       *)
(* sequence of re.sub calls.  A rule is a record: kind, the literal text   *)
(* pre the pattern starts with, and the replacement l \1 r (l \1 m \2 r    *)
(* when two is set).                                                       *)
(*   span    pre ([^`]+) post                                              *)
(*   target  pre ([^<`]{min1,}) \s* < ([^>]{min2,}) > `                    *)
(*   link    ` ([^<]+) \s* < ([^>]+) > ` _+                                *)
(***************************************************************************)
NoMatch == [ok |-> FALSE, len |-> 0, g1 |-> "", g2 |-> ""]

SpanAt(t, p) ==
    LET r == From(t, Len(p.pre))
        n == RunNot(r, {Tick})
    IN  IF StartsWith(t, p.pre) /\ n >= 1 /\ StartsWith(From(r, n), p.post)
        THEN [ok |-> TRUE, len |-> Len(p.pre) + n + Len(p.post), g1 |-> Upto(r, n), g2 |-> ""]
        ELSE NoMatch

TargetAt(t, p) ==
    LET r == From(t, Len(p.pre))
        n == RunNot(r, {"<", Tick})
        q == From(r, n + 1)
        m == RunNot(q, {">"})
    IN  IF /\ StartsWith(t, p.pre)
           /\ n >= p.min1
           /\ StartsWith(From(r, n), "<")
           /\ m >= p.min2
           /\ StartsWith(From(q, m), ">" \o Tick)
        THEN [ok |-> TRUE, len |-> Len(p.pre) + n + 1 + m + 2,
              g1 |-> Upto(r, n), g2 |-> Upto(q, m)]
        ELSE NoMatch

LinkAt(t) ==
    LET r == From(t, 1)
        n == RunNot(r, {"<"})
        q == From(r, n + 1)
        m == RunNot(q, {">"})
        u == Run(From(q, m + 2), {"_"})
    IN  IF /\ StartsWith(t, Tick)
           /\ n >= 1
           /\ StartsWith(From(r, n), "<")
           /\ m >= 1
           /\ StartsWith(From(q, m), ">" \o Tick)
           /\ u >= 1
        THEN [ok |-> TRUE, len |-> 1 + n + 1 + m + 2 + u,
              g1 |-> Upto(r, n), g2 |-> Upto(q, m)]
        ELSE NoMatch

MatchAt(t, p) ==
    IF p.kind = "span" THEN SpanAt(t, p)
    ELSE IF p.kind = "target" THEN TargetAt(t, p)
    ELSE LinkAt(t)

Replacement(p, m) == p.l \o m.g1 \o (IF p.two THEN p.m \o m.g2 ELSE "") \o p.r

\* re.sub(pattern, replacement, s): leftmost matches, left to right; a
\* match starts where the literal text pre of the pattern is found
RECURSIVE Sub(_, _)
Sub(s, p) ==
    LET k == Find(s, p.pre, 1)
    IN  IF k = 0 THEN s
        ELSE LET m == MatchAt(From(s, k - 1), p)
             IN  IF m.ok
                 THEN Upto(s, k - 1) \o Replacement(p, m) \o Sub(From(s, k - 1 + m.len), p)
                 ELSE Upto(s, k) \o Sub(From(s, k), p)

SpanRule(role, l, r) ==
    [kind |-> "span", pre |-> ":" \o role \o ":" \o Tick, post |-> Tick,
     min1 |-> 1, min2 |-> 1, l |-> l, m |-> "", r |-> r, two |-> FALSE]

TargetRule(role, min, l, r) ==
    [kind |-> "target", pre |-> ":" \o role \o ":" \o Tick, post |-> Tick,
     min1 |-> min, min2 |-> min, l |-> l, m |-> "", r |-> r, two |-> FALSE]

InlineRules ==
    << SpanRule("file", Tick, Tick),
       SpanRule("menuselection", "**", "**"),
       SpanRule("command", Tick, Tick),
       SpanRule("data", Tick, Tick),
       SpanRule("const", Tick, Tick),
       SpanRule("kbd", "<kbd>", "</kbd>"),
       SpanRule("guilabel", "**", "**"),
       SpanRule("envvar", Tick, Tick),
       TargetRule("class", 1, Tick, Tick),
       SpanRule("class", Tick, Tick),
       TargetRule("meth", 1, Tick, Tick),
       SpanRule("meth", Tick, Tick),
       TargetRule("func", 1, Tick, Tick),
       SpanRule("func", Tick, Tick),
       TargetRule("attr", 1, Tick, Tick),
       SpanRule("attr", Tick, Tick),
       SpanRule("mod", Tick, Tick),
       SpanRule("ref", "*", "*"),
       SpanRule("doc", "*", "*"),
       TargetRule("api", 0, "", ""),
       TargetRule("pyqgis", 0, "", ""),
       [kind |-> "target", pre |-> ":source:" \o Tick, post |-> Tick,
        min1 |-> 1, min2 |-> 1, l |-> "[", m |-> "](", r |-> ")", two |-> TRUE],
       [kind |-> "span", pre |-> Tick \o Tick, post |-> Tick \o Tick,
        min1 |-> 1, min2 |-> 1, l |-> Tick, m |-> "", r |-> Tick, two |-> FALSE],
       [kind |-> "link", pre |-> Tick, post |-> Tick,
        min1 |-> 1, min2 |-> 1, l |-> "[", m |-> "](", r |-> ")", two |-> TRUE] >>

RECURSIVE ApplyRules(_, _)
ApplyRules(s, k) ==
    IF k > Len(InlineRules) THEN s ELSE ApplyRules(Sub(s, InlineRules[k]), k + 1)

InlineRewrite(line) == ApplyRules(line, 1)

PlainStep(ls, j, res) == [i |-> j + 1, result |-> Append(res, InlineRewrite(At(ls, j)))]

(***************************************************************************)
(* rst_to_markdown: the clean-up pass and the returned text.               *)
(***************************************************************************)
\* drop each blank line that follows a blank line
RECURSIVE Collapse(_, _)
Collapse(res, prev_empty) ==
    IF res = << >> THEN << >>
    ELSE LET is_empty == Strip(res[1]) = ""
         IN  IF is_empty /\ prev_empty
             THEN Collapse(Tail(res), prev_empty)
             ELSE <<res[1]>> \o Collapse(Tail(res), is_empty)

\* while cleaned and not cleaned[0].strip(): cleaned.pop(0)
RECURSIVE PopLeadingBlank(_)
PopLeadingBlank(cleaned) ==
    IF cleaned # << >> /\ Strip(cleaned[1]) = ""
    THEN PopLeadingBlank(Tail(cleaned))
    ELSE cleaned

Cleaned(res) == PopBlank(PopLeadingBlank(Collapse(res, FALSE)))

\* one iteration of the while loop
Step(ls, j, res) ==
    LET o == Owner(ls, j)
    IN  IF o = "testskip" THEN TestSkipStep(ls, j, res)
        ELSE IF o = "highlight" THEN HighlightStep(ls, j, res)
        ELSE IF o = "only" THEN OnlyStep(ls, j, res)
        ELSE IF o = "index" THEN IndexStep(ls, j, res)
        ELSE IF o = "target" THEN TargetStep(ls, j, res)
        ELSE IF o = "title" THEN TitleStep(ls, j, res)
        ELSE IF o = "testcode" THEN TestCodeStep(ls, j, res)
        ELSE IF o = "codeblock" THEN CodeBlockStep(ls, j, res)
        ELSE IF o = "literal" THEN LiteralStep(ls, j, res)
        ELSE IF o = "figure" THEN FigureStep(ls, j, res)
        ELSE IF o = "admonition" THEN AdmonitionStep(ls, j, res)
        ELSE IF o = "unknown" THEN UnknownStep(ls, j, res)
        ELSE PlainStep(ls, j, res)

\* the while loop, from cursor j and buffer res
RECURSIVE RunLoop(_, _, _)
RunLoop(ls, j, res) ==
    IF j < Len(ls)
    THEN LET s == Step(ls, j, res) IN RunLoop(ls, s.i, s.result)
    ELSE res

\* rst_to_markdown as a function of the text
rst_to_markdown(rst_content) ==
    Join(Cleaned(RunLoop(SplitLines(expand_tabs(rst_content)), 0, << >>)), "\n")

(***************************************************************************)
(* The parts of the program a specification does not run.                  *)
(***************************************************************************)
RstIdle ==
    /\ lines = << >> /\ i = 0 /\ result = << >> /\ pc = "idle" /\ markdown = ""
    /\ branch = "none" /\ handler = "none" /\ start = 0 /\ rlen = 0

NbIdle ==
    /\ nb_lines = << >> /\ nb_i = 0 /\ nb_title = "" /\ cells = << >>
    /\ current_lines = << >> /\ in_code_block = FALSE /\ code_lang = ""
    /\ code_fence_pattern = "" /\ in_quote = FALSE /\ quote_code_block = FALSE
    /\ nb_cells = << >> /\ nb_pc = "idle" /\ nb_branch = "none"
    /\ content = "" /\ closed_lang = ""

BatchIdle ==
    /\ docs = << >> /\ idx = 0 /\ cf_pc = "idle" /\ md_file = << >> /\ nb_file = << >>
    /\ returned = << >> /\ success_count = 0 /\ fail_count = 0 /\ main_pc = "idle"

(***************************************************************************)
(* rst_to_markdown as a state machine: one action per branch of the loop   *)
(* body, and Return for the clean-up pass after the loop.                  *)
(***************************************************************************)
\* what the loop head decides at cursor j: to leave the loop, or the branch
\* of the body that owns the line
Selected(ls, j) == IF j < Len(ls) THEN Owner(ls, j) ELSE "exit"

\* the loop is at a line the branch o owns
AtBranch(o) == pc = "loop" /\ branch = o

\* what every iteration records
Iterated(o, s) ==
    /\ i' = s.i
    /\ result' = s.result
    /\ branch' = Selected(lines, s.i)
    /\ handler' = o
    /\ start' = i
    /\ rlen' = Len(result)
    /\ UNCHANGED <<lines, pc, markdown, nbVars, batchVars>>

SkipTest == AtBranch("testskip") /\ Iterated("testskip", TestSkipStep(lines, i, result))

SkipHighlight ==
    AtBranch("highlight") /\ Iterated("highlight", HighlightStep(lines, i, result))

SkipOnly == AtBranch("only") /\ Iterated("only", OnlyStep(lines, i, result))

SkipIndex == AtBranch("index") /\ Iterated("index", IndexStep(lines, i, result))

SkipTarget == AtBranch("target") /\ Iterated("target", TargetStep(lines, i, result))

Title == AtBranch("title") /\ Iterated("title", TitleStep(lines, i, result))

TestCode == AtBranch("testcode") /\ Iterated("testcode", TestCodeStep(lines, i, result))

CodeBlock == AtBranch("codeblock") /\ Iterated("codeblock", CodeBlockStep(lines, i, result))

Literal == AtBranch("literal") /\ Iterated("literal", LiteralStep(lines, i, result))

Figure == AtBranch("figure") /\ Iterated("figure", FigureStep(lines, i, result))

Admonition ==
    AtBranch("admonition") /\ Iterated("admonition", AdmonitionStep(lines, i, result))

SkipUnknown == AtBranch("unknown") /\ Iterated("unknown", UnknownStep(lines, i, result))

PlainLine == AtBranch("plain") /\ Iterated("plain", PlainStep(lines, i, result))

Return ==
    /\ AtBranch("exit")
    /\ markdown' = Join(Cleaned(result), "\n")
    /\ pc' = "done"
    /\ handler' = "return"
    /\ UNCHANGED <<lines, i, result, branch, start, rlen, nbVars, batchVars>>

\* rst_to_markdown is called with the text whose lines are raw
RstCalled(raw) ==
    /\ lines = SplitLines(expand_tabs(Join(raw, "\n")))
    /\ branch = Selected(lines, 0)
    /\ i = 0
    /\ result = << >>
    /\ pc = "loop"
    /\ markdown = ""
    /\ handler = "none"
    /\ start = 0
    /\ rlen = 0

\* the documents of 1 to n lines drawn from the set alphabet
Documents(alphabet, n) == UNION {[1..m -> alphabet] : m \in 1..n}

(***************************************************************************)
(* Spec: rst_to_markdown on documents that reach every branch.             *)
(***************************************************************************)
MaxLines == 3

RstAlphabet ==
    { "", "a", "\ta", "====",
      ".. testsetup::", ".. highlight:: c", ".. only:: html", ".. index:: k",
      ".. _t:", ".. testcode::", ".. code-block:: c", "x::", ".. figure:: f",
      ".. note:: n", ".. foo::", ".. code:: c" }

Init ==
    /\ \E raw \in Documents(RstAlphabet, MaxLines) : RstCalled(raw)
    /\ NbIdle
    /\ BatchIdle

Next ==
    \/ SkipTest
    \/ SkipHighlight
    \/ SkipOnly
    \/ SkipIndex
    \/ SkipTarget
    \/ Title
    \/ TestCode
    \/ CodeBlock
    \/ Literal
    \/ Figure
    \/ Admonition
    \/ SkipUnknown
    \/ PlainLine
    \/ Return

Spec == Init /\ [][Next]_vars

(***************************************************************************)
(* markdown_to_notebook: the fence regex and the non-Python signatures.    *)
(***************************************************************************)
\* re.match(r"^(```+)\s*(\w*)$", line)
FenceTicks(line) == Run(line, {Tick})

FenceLang(line) == LStrip(From(line, FenceTicks(line)))

IsCodeStart(line) ==
    FenceTicks(line) >= 3 /\ Run(FenceLang(line), WordChars) = Len(FenceLang(line))

UpperAlpha == "ABCDEFGHIJKLMNOPQRSTUVWXYZ"

LowerAlpha == "abcdefghijklmnopqrstuvwxyz"

UpperChars == {Char(UpperAlpha, k) : k \in 1..Len(UpperAlpha)}

LowerChars == {Char(LowerAlpha, k) : k \in 1..Len(LowerAlpha)}

LowerChar(c) ==
    IF c \in UpperChars THEN Char(LowerAlpha, Find(UpperAlpha, c, 1)) ELSE c

RECURSIVE Lower(_)
Lower(s) == IF s = "" THEN "" ELSE LowerChar(Char(s, 1)) \o Lower(From(s, 1))

\* a pattern text, and the class [A-Z_], as re.IGNORECASE (ic) reads them
\* on a text folded to lower case
Lit(p, ic) == IF ic THEN Lower(p) ELSE p

NameClass(ic) == IF ic THEN LowerChars \cup {"_"} ELSE UpperChars \cup {"_"}

\* s holds the text p at position k
HasAt(s, k, p) == k + Len(p) - 1 <= Len(s) /\ SubSeq(s, k, k + Len(p) - 1) = p

\* the rest of the line of s from position k on: what .* can match
RestOfLine(s, k) == SubSeq(s, k, k + RunNotFrom(s, k, {"\n"}) - 1)

\* ^\s*p at the line start k
WsThen(s, k, p) == HasAt(s, k + RunFrom(s, k, WsChars), p)

\* ^p\s+ at the line start k
ThenWs(s, k, p) == HasAt(s, k, p) /\ RunFrom(s, k + Len(p), WsChars) >= 1

\* ^[A-Z_]+\s*= at the line start k
AssignAt(s, k, cls) ==
    LET n == RunFrom(s, k, cls)
    IN  n >= 1 /\ HasAt(s, k + n + RunFrom(s, k + n, WsChars), "=")

\* ^\s*#.*bin/ and ^\s*\[.*\] at the line start k
WsThenLater(s, k, p, q) ==
    LET h == k + RunFrom(s, k, WsChars)
    IN  HasAt(s, h, p) /\ Find(RestOfLine(s, h + Len(p)), q, 1) > 0

CommandWords == {"export", "set", "call", "path", "Start"}

LeadInPhrases == {"initialize the", "create the", "the main", "for each"}

\* one of non_python_patterns matches at the line start k
SignatureAt(s, k, ic) ==
    \/ AssignAt(s, k, NameClass(ic))
    \/ WsThenLater(s, k, "#", "bin/")
    \/ WsThen(s, k, "<")
    \/ WsThenLater(s, k, "[", "]")
    \/ \E p \in CommandWords : ThenWs(s, k, Lit(p, ic))
    \/ HasAt(s, k, "@echo")
    \/ \E p \in LeadInPhrases : WsThen(s, k, Lit(p, ic))

\* re.search(pattern, text, re.MULTILINE) for some pattern of the list,
\* with re.IGNORECASE when ic
Searched(text, ic) ==
    LET s == IF ic THEN Lower(text) ELSE text
    IN  \E o \in LineStarts(s) : SignatureAt(s, o + 1, ic)

\* the loop over non_python_patterns, which searches with re.IGNORECASE
LooksNonPython(text) == Searched(text, TRUE)

PythonLangs == {"python", "py"}

MarkdownCell(text) == [type |-> "markdown", content |-> text]

CodeCell(text) == [type |-> "code", content |-> text]

\* a classification that applies the content heuristic to a tagged fence too
ClosedFenceCellHeuristic(lang, text) ==
    IF lang \in PythonLangs \cup {""} /\ ~LooksNonPython(text)
    THEN CodeCell(text)
    ELSE MarkdownCell(Fence \o (IF lang \notin PythonLangs \cup {""} THEN lang ELSE "text")
                          \o "\n" \o text \o "\n" \o Fence)

\* the cell a closed fence with the non-empty body text becomes
ClosedFenceCell(lang, text) ==
    LET is_python == IF lang = "" THEN ~LooksNonPython(text) ELSE lang \in PythonLangs
    IN  IF is_python
        THEN CodeCell(text)
        ELSE MarkdownCell(Fence \o (IF lang # "" THEN lang ELSE "text") \o "\n"
                              \o text \o "\n" \o Fence)

\* "\n".join(current_lines).strip()
ContentOf(ls) == Strip(Join(ls, "\n"))

\* the cell of the remaining content after the loop, when it is not empty
RemainingCell(open, lang, text) ==
    IF open /\ lang \in PythonLangs THEN CodeCell(text) ELSE MarkdownCell(text)

\* combined_cells: each run of consecutive markdown cells made one cell,
\* current_md the markdown contents not yet combined
RECURSIVE Combine(_, _)
Combine(cs, current_md) ==
    LET md == IF current_md = << >> THEN << >>
              ELSE <<MarkdownCell(Join(current_md, "\n\n"))>>
    IN  IF cs = << >> THEN md
        ELSE IF cs[1].type = "markdown"
        THEN Combine(Tail(cs), Append(current_md, cs[1].content))
        ELSE md \o <<cs[1]>> \o Combine(Tail(cs), << >>)

\* a combining pass that merges nothing
CombinedCellsUnmerged(cs) == cs

\* combined_cells after the combining pass over cells
CombinedCells(cs) == Combine(cs, << >>)

\* a notebook without the fallback cell
NotebookCellsNoFallback(cs, title) == CombinedCells(cs)

\* nb.cells: the combined cells, or the one title cell when there is none
NotebookCells(cs, title) ==
    IF CombinedCells(cs) # << >> THEN CombinedCells(cs)
    ELSE <<MarkdownCell(IF title # "" THEN "# " \o title ELSE "# Untitled")>>

(***************************************************************************)
(* markdown_to_notebook as a state machine: one action per branch of the   *)
(* loop body, Flush for the remaining content after the loop, and          *)
(* CreateCells for the combining pass and the cells of the notebook.       *)
(***************************************************************************)
NbLine == At(nb_lines, nb_i)

InNbLoop == nb_pc = "loop" /\ nb_i < Len(nb_lines)

IsQuoteFence(line) == StartsWith(line, "> " \o Fence)

\* the current prose, as the cell it is saved as when a fence opens
SavedProseNone(ls) == << >>

SavedProse(ls) == IF ContentOf(ls) # "" THEN <<MarkdownCell(ContentOf(ls))>> ELSE << >>

NbStepped(b) ==
    /\ nb_i' = nb_i + 1
    /\ nb_branch' = b
    /\ UNCHANGED <<nb_lines, nb_title, nb_cells, nb_pc, rstVars, batchVars>>

QuoteFenceLine ==
    /\ InNbLoop
    /\ IsQuoteFence(NbLine)
    /\ in_quote' = TRUE
    /\ current_lines' = Append(current_lines, NbLine)
    /\ quote_code_block' = ~quote_code_block
    /\ NbStepped("quotefence")
    /\ UNCHANGED <<cells, in_code_block, code_lang, code_fence_pattern, content, closed_lang>>

QuoteBodyLine ==
    /\ InNbLoop
    /\ ~IsQuoteFence(NbLine)
    /\ quote_code_block
    /\ current_lines' = Append(current_lines, NbLine)
    /\ NbStepped("quotebody")
    /\ UNCHANGED <<cells, in_code_block, code_lang, code_fence_pattern, in_quote,
                   quote_code_block, content, closed_lang>>

OpensFence ==
    ~IsQuoteFence(NbLine) /\ ~quote_code_block /\ IsCodeStart(NbLine) /\ ~in_code_block

\* a closing test that takes any run of three or more backticks
ClosesFenceAnyRun ==
    /\ ~IsQuoteFence(NbLine) /\ ~quote_code_block /\ ~OpensFence
    /\ in_code_block
    /\ FenceTicks(Strip(NbLine)) >= 3
    /\ FenceTicks(Strip(NbLine)) = Len(Strip(NbLine))

ClosesFence ==
    /\ ~IsQuoteFence(NbLine) /\ ~quote_code_block /\ ~OpensFence
    /\ in_code_block /\ Strip(NbLine) = code_fence_pattern

FenceOpen ==
    /\ InNbLoop
    /\ OpensFence
    /\ cells' = cells \o SavedProse(current_lines)
    /\ content' = IF current_lines # << >> THEN ContentOf(current_lines) ELSE content
    /\ current_lines' = << >>
    /\ in_code_block' = TRUE
    /\ code_fence_pattern' = Upto(NbLine, FenceTicks(NbLine))
    /\ code_lang' = FenceLang(NbLine)
    /\ NbStepped("open")
    /\ UNCHANGED <<in_quote, quote_code_block, closed_lang>>

FenceClose ==
    /\ InNbLoop
    /\ ClosesFence
    /\ in_code_block' = FALSE
    /\ content' = ContentOf(current_lines)
    /\ cells' = IF ContentOf(current_lines) # ""
                THEN Append(cells, ClosedFenceCell(code_lang, ContentOf(current_lines)))
                ELSE cells
    /\ closed_lang' = code_lang
    /\ current_lines' = << >>
    /\ code_fence_pattern' = ""
    /\ code_lang' = ""
    /\ NbStepped("close")
    /\ UNCHANGED <<in_quote, quote_code_block>>

ProseLine ==
    /\ InNbLoop
    /\ ~IsQuoteFence(NbLine) /\ ~quote_code_block /\ ~OpensFence /\ ~ClosesFence
    /\ current_lines' = Append(current_lines, NbLine)
    /\ NbStepped("prose")
    /\ UNCHANGED <<cells, in_code_block, code_lang, code_fence_pattern, in_quote,
                   quote_code_block, content, closed_lang>>

\* the loop is left; the remaining content becomes the last cell
Flush ==
    /\ nb_pc = "loop"
    /\ nb_i = Len(nb_lines)
    /\ content' = IF current_lines # << >> THEN ContentOf(current_lines) ELSE content
    /\ cells' = IF current_lines # << >> /\ ContentOf(current_lines) # ""
                THEN Append(cells, RemainingCell(in_code_block, code_lang,
                                                 ContentOf(current_lines)))
                ELSE cells
    /\ nb_pc' = "combine"
    /\ nb_branch' = "flush"
    /\ UNCHANGED <<nb_lines, nb_i, nb_title, current_lines, in_code_block, code_lang,
                   code_fence_pattern, in_quote, quote_code_block, nb_cells,
                   closed_lang, rstVars, batchVars>>

CreateCells ==
    /\ nb_pc = "combine"
    /\ nb_cells' = NotebookCells(cells, nb_title)
    /\ nb_pc' = "done"
    /\ nb_branch' = "create"
    /\ UNCHANGED <<nb_lines, nb_i, nb_title, cells, current_lines, in_code_block,
                   code_lang, code_fence_pattern, in_quote, quote_code_block,
                   content, closed_lang, rstVars, batchVars>>

\* markdown_to_notebook(markdown_content, title) is called
NbCalled(md, title) ==
    /\ nb_lines = SplitLines(md) /\ nb_i = 0 /\ nb_title = title
    /\ cells = << >> /\ current_lines = << >> /\ in_code_block = FALSE
    /\ code_lang = "" /\ code_fence_pattern = "" /\ in_quote = FALSE
    /\ quote_code_block = FALSE /\ nb_cells = << >> /\ nb_pc = "loop"
    /\ nb_branch = "none" /\ content = "" /\ closed_lang = ""

MaxMdLines == 4

MdAlphabet ==
    { "", Fence, Fence \o "python", Fence \o " ini", Fence \o Tick, "> " \o Fence,
      "x = 1", "PATH=1", "print(1)", Fence \o "py" }

Titles == {"", "T"}

InitNb ==
    /\ \E raw \in Documents(MdAlphabet, MaxMdLines), title \in Titles :
           NbCalled(Join(raw, "\n"), title)
    /\ RstIdle
    /\ BatchIdle

NextNb ==
    \/ QuoteFenceLine \/ QuoteBodyLine \/ FenceOpen \/ FenceClose \/ ProseLine
    \/ Flush \/ CreateCells

SpecNb == InitNb /\ [][NextNb]_vars

(***************************************************************************)
(* SpecCells: markdown_to_notebook on documents long enough to hold two    *)
(* prose cells and a code cell.                                            *)
(***************************************************************************)
MaxCellLines == 6

CellAlphabet == { "a", Fence, Fence \o "py", Fence \o " ini" }

InitCells ==
    /\ \E raw \in Documents(CellAlphabet, MaxCellLines) : NbCalled(Join(raw, "\n"), "")
    /\ RstIdle
    /\ BatchIdle

NextCells == FenceOpen \/ FenceClose \/ ProseLine \/ Flush \/ CreateCells

SpecCells == InitCells /\ [][NextCells]_vars

(***************************************************************************)
(* SpecFence: markdown_to_notebook on documents of fences of two lengths,  *)
(* tagged fences, quoted fences and text.                                  *)
(***************************************************************************)
MaxFenceLines == 4

FenceAlphabet ==
    { "", "a", "b", Fence, Fence \o Tick, Fence \o "py", Fence \o " ini", "> " \o Fence }

InitFence ==
    /\ \E raw \in Documents(FenceAlphabet, MaxFenceLines) : NbCalled(Join(raw, "\n"), "")
    /\ RstIdle
    /\ BatchIdle

SpecFence == InitFence /\ [][NextNb]_vars

(***************************************************************************)
(* convert_file and the for loop of main.  What the model keeps of a       *)
(* document is the statement of convert_file that raises for it, if any;   *)
(* what it keeps of an output file is whether it is absent, opened for     *)
(* writing but not fully written ("partial"), or written.                  *)
(***************************************************************************)
Faults ==
    { "none", "mkdir", "read", "to_md", "open_md", "write_md", "to_nb", "open_nb",
      "write_nb" }

\* the document convert_file is working on, and what raises for it
Doc == idx + 1

Fault == docs[Doc]

InCall(at) == main_pc = "loop" /\ cf_pc = at

\* convert_file moves on to the statement at
Goes(at) ==
    /\ cf_pc' = at
    /\ UNCHANGED <<docs, idx, returned, success_count, fail_count, main_pc, rstVars, nbVars>>

\* an exception raised outside the try statement leaves convert_file and,
\* nothing in main catching it, ends the for loop and main
Uncaught ==
    /\ cf_pc' = "raised"
    /\ main_pc' = "crashed"
    /\ UNCHANGED <<docs, idx, md_file, nb_file, returned, success_count, fail_count,
                   rstVars, nbVars>>

\* the for loop of main calls convert_file for the next document
Call ==
    /\ InCall("idle")
    /\ idx < Len(docs)
    /\ Goes("mkdir")
    /\ UNCHANGED <<md_file, nb_file>>

\* md_path.parent.mkdir(...); nb_path.parent.mkdir(...)
MakeDirs ==
    /\ InCall("mkdir")
    /\ IF Fault = "mkdir" THEN Uncaught ELSE Goes("read") /\ UNCHANGED <<md_file, nb_file>>

\* with open(rst_path, "r", encoding="utf-8") as f: rst_content = f.read()
ReadRst ==
    /\ InCall("read")
    /\ IF Fault = "read" THEN Uncaught ELSE Goes("to_md") /\ UNCHANGED <<md_file, nb_file>>

\* markdown_content = rst_to_markdown(rst_content)
ToMarkdown ==
    /\ InCall("to_md")
    /\ Goes(IF Fault = "to_md" THEN "except" ELSE "write_md")
    /\ UNCHANGED <<md_file, nb_file>>

\* the state of a file after open(path, "w") and the write into it, when
\* the open raises, the write raises, or neither does
Written(file, open_raises, write_raises) ==
    IF open_raises THEN file ELSE IF write_raises THEN "partial" ELSE "written"

\* with open(md_path, "w", encoding="utf-8") as f: f.write(markdown_content)
WriteMarkdown ==
    /\ InCall("write_md")
    /\ md_file' = [md_file EXCEPT
                       ![Doc] = Written(@, Fault = "open_md", Fault = "write_md")]
    /\ Goes(IF Fault \in {"open_md", "write_md"} THEN "except" ELSE "to_nb")
    /\ UNCHANGED nb_file

\* notebook = markdown_to_notebook(markdown_content, title)
ToNotebook ==
    /\ InCall("to_nb")
    /\ Goes(IF Fault = "to_nb" THEN "except" ELSE "write_nb")
    /\ UNCHANGED <<md_file, nb_file>>

\* with open(nb_path, "w", encoding="utf-8") as f: nbformat.write(notebook, f)
WriteNotebook ==
    /\ InCall("write_nb")
    /\ nb_file' = [nb_file EXCEPT
                       ![Doc] = Written(@, Fault = "open_nb", Fault = "write_nb")]
    /\ Goes(IF Fault \in {"open_nb", "write_nb"} THEN "except" ELSE "return")
    /\ UNCHANGED md_file

\* convert_file returns ok and main counts the document
Counted(ok) ==
    /\ returned' = Append(returned, ok)
    /\ success_count' = IF ok THEN success_count + 1 ELSE success_count
    /\ fail_count' = IF ok THEN fail_count ELSE fail_count + 1
    /\ idx' = idx + 1
    /\ cf_pc' = "idle"
    /\ UNCHANGED <<docs, md_file, nb_file, main_pc, rstVars, nbVars>>

\* return True
ReturnTrue == InCall("return") /\ Counted(TRUE)

\* except Exception as e: ... return False
ReturnFalse == InCall("except") /\ Counted(FALSE)

\* the for loop ends and main prints the tally
Finish ==
    /\ InCall("idle")
    /\ idx = Len(docs)
    /\ main_pc' = "done"
    /\ UNCHANGED <<docs, idx, cf_pc, md_file, nb_file, returned, success_count,
                   fail_count, rstVars, nbVars>>

MaxDocs == 3

\* main has found the documents ds and starts the for loop
MainCalled(ds) ==
    /\ docs = ds /\ idx = 0 /\ cf_pc = "idle"
    /\ md_file = [k \in 1..Len(ds) |-> "absent"]
    /\ nb_file = [k \in 1..Len(ds) |-> "absent"]
    /\ returned = << >> /\ success_count = 0 /\ fail_count = 0 /\ main_pc = "loop"

InitBatch ==
    /\ \E ds \in Documents(Faults, MaxDocs) : MainCalled(ds)
    /\ RstIdle
    /\ NbIdle

NextBatch ==
    \/ Call \/ MakeDirs \/ ReadRst \/ ToMarkdown \/ WriteMarkdown \/ ToNotebook
    \/ WriteNotebook \/ ReturnTrue \/ ReturnFalse \/ Finish

SpecBatch == InitBatch /\ [][NextBatch]_vars

(***************************************************************************)
(* SpecSkip: rst_to_markdown on documents of test-skip directives, at      *)
(* column 0 and indented, and text at several indentations.                *)
(***************************************************************************)
MaxSkipLines == 4

SkipAlphabet ==
    { "", "  ", "a", "  a", "    a", ".. testsetup::", "  .. testoutput::" }

InitSkip ==
    /\ \E raw \in Documents(SkipAlphabet, MaxSkipLines) : RstCalled(raw)
    /\ NbIdle
    /\ BatchIdle

NextSkip == SkipTest \/ PlainLine \/ Return

SpecSkip == InitSkip /\ [][NextSkip]_vars

(***************************************************************************)
(* SpecTitle: rst_to_markdown on documents of titles, overlines and        *)
(* underlines of every title character.                                    *)
(***************************************************************************)
MaxTitleLines == 3

TitleAlphabet ==
    { "", "a", "  b", "=", "***", "===", "---", "~~~", "+++", "^^^", "'''", "\"\"\"",
      ".. _t:" }

InitTitle ==
    /\ \E raw \in Documents(TitleAlphabet, MaxTitleLines) : RstCalled(raw)
    /\ NbIdle
    /\ BatchIdle

NextTitle == SkipTarget \/ Title \/ PlainLine \/ Return

SpecTitle == InitTitle /\ [][NextTitle]_vars

(***************************************************************************)
(* SpecLiteral: rst_to_markdown on documents of lines ending in :: and of  *)
(* lines at several indentations.                                          *)
(***************************************************************************)
MaxLiteralLines == 4

LiteralAlphabet == { "", "x::", "::", " y ::", "a", " a", "  a", "\ta" }

InitLiteral ==
    /\ \E raw \in Documents(LiteralAlphabet, MaxLiteralLines) : RstCalled(raw)
    /\ NbIdle
    /\ BatchIdle

NextLiteral == Literal \/ PlainLine \/ Return

SpecLiteral == InitLiteral /\ [][NextLiteral]_vars

(***************************************************************************)
(* SpecAdmonition: rst_to_markdown on documents of admonitions with body   *)
(* text and nested testcode blocks.                                        *)
(***************************************************************************)
MaxAdmonitionLines == 4

AdmonitionAlphabet ==
    { "", "a", ".. note:: n", ".. tip::", "   t", "   u", "   .. testcode::",
      "      c", "      d" }

InitAdmonition ==
    /\ \E raw \in Documents(AdmonitionAlphabet, MaxAdmonitionLines) : RstCalled(raw)
    /\ NbIdle
    /\ BatchIdle

NextAdmonition == TestCode \/ Admonition \/ PlainLine \/ Return

SpecAdmonition == InitAdmonition /\ [][NextAdmonition]_vars

(***************************************************************************)
(* SpecBlank: rst_to_markdown on documents of code bodies with runs of     *)
(* blank lines inside, at top level and nested in an admonition.           *)
(***************************************************************************)
MaxBlankLines == 6

BlankAlphabet ==
    { "", "      c", "   .. testcode::", ".. code-block:: c", "x::", ".. note:: n" }

InitBlank ==
    /\ \E raw \in Documents(BlankAlphabet, MaxBlankLines) : RstCalled(raw)
    /\ NbIdle
    /\ BatchIdle

NextBlank == TestCode \/ CodeBlock \/ Literal \/ Admonition \/ PlainLine \/ Return

SpecBlank == InitBlank /\ [][NextBlank]_vars

(***************************************************************************)
(* SpecInline: rst_to_markdown on one-line documents put together from     *)
(* backticks, a role and text.                                             *)
(***************************************************************************)
MaxPieces == 3

InlinePieces == { Tick, Tick \o Tick, "a", " " }

InlineRoles == { "", ":file:" }

InitInline ==
    /\ \E role \in InlineRoles, ps \in Documents(InlinePieces, MaxPieces) :
           RstCalled(<<role \o Join(ps, "")>>)
    /\ NbIdle
    /\ BatchIdle

NextInline == PlainLine \/ Return

SpecInline == InitInline /\ [][NextInline]_vars

(***************************************************************************)
(* SpecCode: rst_to_markdown on documents of testcode and code-block       *)
(* directives, option lines and text at several indentations.              *)
(***************************************************************************)
MaxCodeLines == 4

CodeAlphabet ==
    { "", "      ", "a", "  a", "    a", "   :o:",
      ".. testcode::", ".. code-block:: c", ".. code-block::" }

InitCode ==
    /\ \E raw \in Documents(CodeAlphabet, MaxCodeLines) : RstCalled(raw)
    /\ NbIdle
    /\ BatchIdle

NextCode == TestCode \/ CodeBlock \/ PlainLine \/ Return

SpecCode == InitCode /\ [][NextCode]_vars

(***************************************************************************)
(* What the claims are stated with.                                        *)
(***************************************************************************)
Min(S) == CHOOSE x \in S : \A y \in S : x <= y

Max(S) == CHOOSE x \in S : \A y \in S : x >= y

\* an iteration of the loop body has run
Iteration == handler \notin {"none", "return"}

\* the line the last iteration started at, and its indentation
StartLine == At(lines, start)

StartIndent == Indent(StartLine)

\* the cursors after the one the last iteration started at
After == (start + 1)..(Len(lines) - 1)

\* the first cursor of the set S, the end of the document when S is empty
FirstOf(S) == IF S = {} THEN Len(lines) ELSE Min(S)

\* what the last iteration appended to the output buffer
Emitted == SubSeq(result, rlen + 1, Len(result))

IsOptionLine(l) == StartsWith(Strip(l), ":")

(***************************************************************************)
(* C1.  Every iteration of the dispatcher loop leaves the cursor strictly  *)
(* greater than it was at the start of the iteration, whichever branch     *)
(* ran; the cursor never passes the end of the document, and the loop      *)
(* exits with the cursor at the end of the document.  (A cursor that       *)
(* strictly grows and is bounded by the length of the document gives       *)
(* termination.)                                                           *)
(***************************************************************************)
C1_CursorAdvances ==
    /\ Iteration => start < i
    /\ i <= Len(lines)
    /\ pc = "done" => i = Len(lines)

\* a literal line with nothing indented after it: the branch that consumes
\* no block still advances, and the loop goes on
C1_Witness ==
    /\ handler = "literal"
    /\ i = start + 1
    /\ i < Len(lines)
    /\ Len(result) = rlen + 1

(***************************************************************************)
(* C2, as claimed.  After a testsetup/testcleanup/testoutput directive at  *)
(* any indentation nothing is emitted and dispatching resumes at the first *)
(* dedented line: the first following non-blank line whose indentation is  *)
(* at or below the directive's.                                            *)
(***************************************************************************)
C2_ResumesAtDedent ==
    handler = "testskip" =>
        /\ Len(result) = rlen
        /\ i = FirstOf({j \in After :
                            Strip(At(lines, j)) # "" /\ Indent(At(lines, j)) <= StartIndent})

(***************************************************************************)
(* C2, amended.  After a testsetup/testcleanup/testoutput directive at any *)
(* indentation nothing is emitted and dispatching resumes at the first     *)
(* following non-blank line that does not start with a space and whose     *)
(* indentation is at or below the directive's, or at the end of the        *)
(* document: a line that starts with a space is never the resume point.    *)
(***************************************************************************)
C2_ResumesAtColumnZero ==
    handler = "testskip" =>
        /\ Len(result) = rlen
        /\ i = FirstOf({j \in After :
                            /\ Strip(At(lines, j)) # ""
                            /\ ~StartsWith(At(lines, j), " ")
                            /\ Indent(At(lines, j)) <= StartIndent})

\* an indented directive swallowed a line at or below its own indentation
\* and dispatching resumed at a later line
C2_Witness ==
    /\ handler = "testskip"
    /\ StartIndent > 0
    /\ i < Len(lines)
    /\ \E j \in (start + 1)..(i - 1) :
           Strip(At(lines, j)) # "" /\ Indent(At(lines, j)) <= StartIndent

\* the name of a directive line of the form `.. name::`, "" for another line
NameChars == WordChars \cup {"-"}

DirectiveName(st) ==
    IF ~IsDir(st) THEN ""
    ELSE LET n == Run(DirRest(st), NameChars)
         IN  IF StartsWith(From(DirRest(st), n), "::") THEN Upto(DirRest(st), n) ELSE ""

OwnHandlerNames == {"testcode", "code-block", "figure"} \cup AdmonitionNames

SkipHandlers == {"testskip", "highlight", "only", "index", "unknown"}

\* the lines of the indented body that follows the line the iteration
\* started at
BodyOfStart ==
    {j \in After : \A k \in (start + 1)..j :
                       Blank(At(lines, k)) \/ Indent(At(lines, k)) > StartIndent}

(***************************************************************************)
(* C3, as claimed.  A directive line `.. name::` whose name has no handler *)
(* of its own is owned by a skip branch, which emits nothing and consumes  *)
(* the directive line with its indented body.                              *)
(***************************************************************************)
C3_UnknownDirectiveSkipped ==
    (/\ Iteration
     /\ DirectiveName(Strip(StartLine)) # ""
     /\ DirectiveName(Strip(StartLine)) \notin OwnHandlerNames)
    => /\ handler \in SkipHandlers
       /\ Len(result) = rlen
       /\ \A j \in BodyOfStart : j < i

\* the first line after the directive line that is neither blank nor an
\* option line, the end of the document when there is none
BodyStart == FirstOf({j \in After : ~Blank(At(lines, j)) /\ ~IsOptionLine(At(lines, j))})

CodeHandlers == {"testcode", "codeblock"}

(***************************************************************************)
(* C7, as claimed.  A testcode or code-block directive with an empty body  *)
(* (the first line after the blank and option lines is not indented deeper *)
(* than the directive, or there is none) emits an empty fence, and a       *)
(* following non-blank line indented below 4 is where dispatching resumes. *)
(***************************************************************************)
C7_EmptyBodyEmptyFence ==
    (/\ handler \in CodeHandlers
     /\ BodyStart < Len(lines) => Indent(At(lines, BodyStart)) <= StartIndent)
    => /\ Len(Emitted) = 4
       /\ Emitted[1] = "" /\ StartsWith(Emitted[2], Fence)
       /\ Emitted[3] = Fence /\ Emitted[4] = ""
       /\ (BodyStart < Len(lines) /\ Indent(At(lines, BodyStart)) < DefaultCodeIndent)
              => i = BodyStart

(***************************************************************************)
(* C8, as claimed.  After a testcode or code-block directive whose only    *)
(* option lines are the ones that directly follow the directive line, no   *)
(* line inside the emitted fence is an option line.                        *)
(***************************************************************************)
C8_NoOptionLineInFence ==
    (/\ handler \in CodeHandlers
     /\ \A j \in (start + 1)..(i - 1) : IsOptionLine(At(lines, j)) => j < BodyStart)
    => \A k \in 3..(Len(Emitted) - 2) : ~IsOptionLine(Emitted[k])

\* the language a code-block directive line declares
DeclaredLang(st) == IF st = ".. code-block:: c" THEN "c" ELSE "python"

\* b: the indentation of the first line of the body
BodyIndent ==
    IF BodyStart < Len(lines) THEN LeadingWs(At(lines, BodyStart)) ELSE DefaultCodeIndent

\* the first non-blank line from the body on that is indented less than b
BodyStop ==
    FirstOf({j \in BodyStart..(Len(lines) - 1) :
                 ~Blank(At(lines, j)) /\ Indent(At(lines, j)) < BodyIndent})

\* the body without its trailing blank lines, b columns removed from each
\* line that is not blank, a blank line emptied
BodyKept ==
    LET S == {j \in BodyStart..(BodyStop - 1) : ~Blank(At(lines, j))}
        n == IF S = {} THEN 0 ELSE Max(S) - BodyStart + 1
    IN  [k \in 1..n |->
            LET l == At(lines, BodyStart + k - 1)
            IN  IF Blank(l) THEN "" ELSE SubSeq(l, BodyIndent + 1, Len(l))]

(***************************************************************************)
(* C9.  A code-block directive with language L, followed by a body whose   *)
(* first non-blank line has indentation b, emits a blank line, the opening *)
(* fence tagged L (python when none is given), the body lines in order     *)
(* with exactly b leading columns removed (a blank body line is emitted    *)
(* empty), the closing fence and a blank line; the body ends at the first  *)
(* non-blank line indented less than b, where dispatching resumes, and the *)
(* line before the closing fence is never blank.                           *)
(***************************************************************************)
C9_CodeBlockShape ==
    handler = "codeblock" =>
        /\ Emitted = <<"", Fence \o DeclaredLang(Strip(StartLine))>> \o BodyKept
                         \o <<Fence, "">>
        /\ i = BodyStop
        /\ ~Blank(Emitted[Len(Emitted) - 2])

\* a body indented by an amount other than the default, whose second line
\* is indented deeper and keeps the difference, with a dedented line after it
C9_Witness ==
    /\ handler = "codeblock"
    /\ BodyStart < Len(lines)
    /\ BodyIndent \notin {0, DefaultCodeIndent}
    /\ Len(Emitted) = 6
    /\ StartsWith(Emitted[4], " ")
    /\ BodyStop < Len(lines)

(***************************************************************************)
(* C4, as claimed.  When the input of markdown_to_notebook ends while a    *)
(* fence is open, the content collected in it is flushed as a prose cell,  *)
(* whatever the language tag of the fence.                                 *)
(***************************************************************************)
C4_OpenFenceFlushedAsProse ==
    (nb_branch = "flush" /\ in_code_block /\ ContentOf(current_lines) # "")
    => cells # << >> /\ cells[Len(cells)] = MarkdownCell(ContentOf(current_lines))

(***************************************************************************)
(* C10, as claimed.  A closed fence with no language tag and a body that   *)
(* is not empty becomes a code cell of the body unless a line of the body  *)
(* matches one of the listed signatures as they are listed (the assignment *)
(* signature with an ALL-CAPS name only), and then it becomes a prose cell *)
(* of the body fenced again with the tag text.                             *)
(***************************************************************************)
C10_DowngradeIffListedSignature ==
    (nb_branch = "close" /\ closed_lang = "" /\ content # "")
    => /\ cells # << >>
       /\ cells[Len(cells)] =
              IF Searched(content, FALSE)
              THEN MarkdownCell(Fence \o "text\n" \o content \o "\n" \o Fence)
              ELSE CodeCell(content)

(***************************************************************************)
(* C5, as claimed.  A document whose conversion was reported as failed has *)
(* no output file: neither its Markdown file nor its notebook file was     *)
(* written, in full or in part.                                            *)
(***************************************************************************)
C5_FailureLeavesNoFile ==
    \A k \in 1..Len(returned) :
        ~returned[k] => md_file[k] = "absent" /\ nb_file[k] = "absent"

\* the failures the claim is about: a document that cannot be read, whose
\* conversion raises, or whose output cannot be written
ClaimedFaults == Faults \ {"mkdir"}

(***************************************************************************)
(* C6, as claimed.  A document that cannot be read, converted or written   *)
(* is reported as one failed document, convert_file returning False and    *)
(* fail_count counting it, and the for loop goes on: no failure ends the   *)
(* loop before every document was processed.                               *)
(***************************************************************************)
C6_FailureNeverAbortsBatch ==
    (\A k \in 1..Len(docs) : docs[k] \in ClaimedFaults)
    => /\ main_pc # "crashed"
       /\ \A k \in 1..Len(returned) : docs[k] # "none" => ~returned[k]
       /\ fail_count = Cardinality({k \in 1..Len(returned) : ~returned[k]})
       /\ main_pc = "done" => Len(returned) = Len(docs)

(***************************************************************************)
(* C11.  A closed fence with a language tag and a body that is not empty   *)
(* becomes a code cell of the body exactly when the tag is python or py,   *)
(* whatever the body looks like; with any other tag it becomes a prose     *)
(* cell holding the body fenced again with the same tag.                   *)
(***************************************************************************)
C11_TaggedFenceByTagOnly ==
    (nb_branch = "close" /\ closed_lang # "" /\ content # "")
    => /\ cells # << >>
       /\ cells[Len(cells)] =
              IF closed_lang \in {"python", "py"}
              THEN CodeCell(content)
              ELSE MarkdownCell(Fence \o closed_lang \o "\n" \o content \o "\n" \o Fence)

\* a fence tagged python was closed on a body that matches a non-code
\* signature, and is a code cell all the same
C11_Witness ==
    /\ nb_branch = "close"
    /\ closed_lang = "python"
    /\ LooksNonPython(content)
    /\ cells = <<CodeCell(content)>>

IsCode(c) == c.type = "code"

IsProse(c) == c.type = "markdown"

(***************************************************************************)
(* C12.  In the cells of the notebook returned no two adjacent cells are   *)
(* both prose; the code cells are those of the fence classification, in    *)
(* the same number and order; and each prose cell is a run of consecutive  *)
(* prose cells joined by a blank line, so prose on the two sides of a code *)
(* cell stays in two cells.                                                *)
(***************************************************************************)
C12_ProseMergedCodeKept ==
    (nb_pc = "done" /\ cells # << >>)
    => /\ \A k \in 1..(Len(nb_cells) - 1) : ~(IsProse(nb_cells[k]) /\ IsProse(nb_cells[k + 1]))
       /\ SelectSeq(nb_cells, IsCode) = SelectSeq(cells, IsCode)
       /\ Len(nb_cells) =
              Cardinality({k \in 1..Len(cells) :
                               IsCode(cells[k]) \/ k = 1 \/ IsCode(cells[k - 1])})
       /\ \A k \in 1..Len(nb_cells) :
              IsProse(nb_cells[k]) =>
                  \E a, b \in 1..Len(cells) :
                      /\ a <= b
                      /\ \A m \in a..b : IsProse(cells[m])
                      /\ nb_cells[k].content = Join([m \in 1..(b - a + 1) |->
                                                        cells[a + m - 1].content], "\n\n")

\* two prose cells were merged into the one before a code cell
C12_Witness ==
    /\ nb_pc = "done"
    /\ Len(cells) = 3
    /\ IsProse(cells[1]) /\ IsProse(cells[2]) /\ IsCode(cells[3])
    /\ nb_cells = <<MarkdownCell(cells[1].content \o "\n\n" \o cells[2].content), cells[3]>>

(***************************************************************************)
(* C13.  The notebook returned has at least one cell; when segmentation    *)
(* found no cell and the fallback title t is not empty, it has exactly one *)
(* cell, a prose cell holding "# " followed by t.                          *)
(***************************************************************************)
C13_NeverZeroCells ==
    nb_pc = "done" =>
        /\ nb_cells # << >>
        /\ (cells = << >> /\ nb_title # "")
               => nb_cells = <<MarkdownCell("# " \o nb_title)>>

\* a fence with an empty body only, and a title
C13_Witness ==
    /\ nb_pc = "done"
    /\ cells = << >>
    /\ nb_title # ""
    /\ Len(nb_lines) >= 2
    /\ IsCodeStart(nb_lines[1])

\* the line l is made of at least 3 repetitions of the title character c
RunOf(l, c) == Len(l) >= 3 /\ l = Repeat(c, Len(l))

\* the line l is claimed by a skip handler tried before the title handler
SkipClaimed(l) ==
    \/ IsTestSkip(Strip(l)) \/ IsHighlight(Strip(l)) \/ IsOnlyHtml(Strip(l))
    \/ IsIndex(Strip(l)) \/ IsTarget(Strip(l))

\* the table of heading levels
TableLevel(c) ==
    CASE c = "*" -> 1 [] c = "=" -> 2 [] c = "-" -> 3 [] c = "~" -> 4
      [] c = "+" -> 5 [] c = "^" -> 6 [] OTHER -> 2

\* the last line of the output buffer is made only of the character c
Overlined(c) ==
    /\ result # << >>
    /\ Strip(result[Len(result)]) # ""
    /\ Strip(result[Len(result)]) = Repeat(c, Len(Strip(result[Len(result)])))

\* the heading of the given level for the title line l
Heading(level, l) == Repeat("#", level) \o " " \o Strip(l)

(***************************************************************************)
(* C14.  When the loop is at a non-blank line that no skip handler claims  *)
(* and the next line is made of at least 3 repetitions of one title        *)
(* character c, the iteration consumes exactly the two lines and appends   *)
(* exactly a blank line, the heading and a blank line; the level is within *)
(* 1..6 and, when the last emitted line is not an overline (a line made    *)
(* only of c), it is the level the table gives c; an overline is retracted *)
(* before the three lines are appended.                                    *)
(***************************************************************************)
C14_TitleHeading ==
    [][ \A c \in TitleChars :
          ( /\ pc = "loop"
            /\ i + 1 < Len(lines)
            /\ Strip(At(lines, i)) # ""
            /\ ~SkipClaimed(At(lines, i))
            /\ RunOf(Strip(At(lines, i + 1)), c) )
          => /\ i' = i + 2
             /\ \E level \in 1..6 :
                  /\ result' = (IF Overlined(c) THEN SubSeq(result, 1, Len(result) - 1)
                                ELSE result)
                               \o <<"", Heading(level, At(lines, i)), "">>
                  /\ ~Overlined(c) => level = TableLevel(c) ]_vars

\* a title underlined with ~ after a blank line became a level-4 heading
C14_Witness ==
    /\ handler = "title"
    /\ i = start + 2
    /\ At(lines, start + 1) = "~~~"
    /\ start > 0 /\ At(lines, start - 1) = ""
    /\ Emitted = <<"", "#### " \o Strip(StartLine), "">>

(***************************************************************************)
(* C15.  When an overline of at least 3 repetitions of a title character c *)
(* was dispatched as an ordinary line and is followed by a title line (not *)
(* blank, not claimed by a skip handler, not itself an underline of the    *)
(* overline) and an underline of the same character c, the title iteration *)
(* retracts the overline and emits the heading at level 1, whatever level  *)
(* the table gives c; when these three lines are the whole input the text  *)
(* returned is the level-1 heading alone.                                  *)
(***************************************************************************)
C15_OverlinedTitleIsTopLevel ==
    /\ [][ \A c \in TitleChars :
             ( /\ pc = "loop" /\ 0 < i /\ i + 1 < Len(lines)
               /\ handler = "plain" /\ start = i - 1
               /\ RunOf(Strip(At(lines, i - 1)), c)
               /\ Strip(At(lines, i)) # ""
               /\ ~SkipClaimed(At(lines, i))
               /\ RunOf(Strip(At(lines, i + 1)), c) )
             => result' = SubSeq(result, 1, rlen) \o <<"", Heading(1, At(lines, i)), "">> ]_vars
    /\ [](\A c \in TitleChars :
             ( /\ pc = "done" /\ Len(lines) = 3
               /\ RunOf(Strip(lines[1]), c) /\ RunOf(Strip(lines[3]), c)
               /\ Strip(lines[2]) # "" /\ ~SkipClaimed(lines[2])
               /\ \A d \in TitleChars : ~RunOf(Strip(lines[2]), d) )
             => markdown = Heading(1, lines[2]))

\* an overline, a title and an underline of - became a level-1 heading
C15_Witness ==
    /\ pc = "done"
    /\ lines = <<"---", "a", "---">>
    /\ markdown = "# a"

\* the first non-blank line after the line the last iteration started at
NextNonBlank == FirstOf({k \in After : Strip(At(lines, k)) # ""})

\* the last iteration was the literal handler on a line whose next non-blank
\* line is not indented, or that has no next non-blank line
LiteralWithoutBody ==
    /\ handler = "literal"
    /\ NextNonBlank < Len(lines) => Indent(At(lines, NextNonBlank)) = 0

\* the text before the :: of the line the last iteration started at
TextBeforeColons == RStrip(Upto(Strip(StartLine), Len(Strip(StartLine)) - 2))

(***************************************************************************)
(* C16 as claimed.  When a line ending in :: that is not a directive is    *)
(* followed, after any blank lines, by a line that is not indented or by   *)
(* the end of the input, the literal handler emits one line, the text      *)
(* before :: with a colon, and no fence, and leaves the cursor on the      *)
(* following non-blank line.                                               *)
(***************************************************************************)
C16_ColonLineEmitted ==
    LiteralWithoutBody
    => /\ Emitted = <<TextBeforeColons \o ":">>
       /\ i = NextNonBlank

(***************************************************************************)
(* C16 amended.  In the same case the literal handler emits the text       *)
(* before :: with a colon as one line when that text is not empty and      *)
(* nothing for a bare ::, never a fence, and leaves the cursor on the      *)
(* following non-blank line.                                               *)
(***************************************************************************)
C16_ColonLineEmittedIfText ==
    LiteralWithoutBody
    => /\ Emitted = IF TextBeforeColons # "" THEN <<TextBeforeColons \o ":">> ELSE << >>
       /\ i = NextNonBlank

\* a bare :: followed by a blank line and a line at column 0 emitted nothing
C16_Witness ==
    /\ LiteralWithoutBody
    /\ StartLine = "::"
    /\ Emitted = << >>
    /\ i = start + 2
    /\ At(lines, start + 1) = ""
    /\ i < Len(lines) /\ At(lines, i) = "a"

\* the lines the last iteration consumed after the one it started at
Consumed == (start + 1)..(i - 1)

\* the first non-blank line after the line e, the end of the document if none
FirstBody(e) == FirstOf({k \in (e + 1)..(Len(lines) - 1) : Strip(At(lines, k)) # ""})

\* the indentation the extraction rule of testcode gives the body after line e
NestedIndent(e) ==
    IF FirstBody(e) < Len(lines) THEN Indent(At(lines, FirstBody(e))) ELSE DefaultCodeIndent

\* the first line after the body of a testcode directive at line e
BlockEnd(e) ==
    FirstOf({k \in FirstBody(e)..(Len(lines) - 1) :
                 Strip(At(lines, k)) # "" /\ Indent(At(lines, k)) < NestedIndent(e)})

\* the line e of the admonition body is a testcode directive outside the
\* body of every testcode directive before it
RECURSIVE NestedTestCode(_)
NestedTestCode(e) ==
    /\ e \in Consumed
    /\ IsTestCode(Strip(At(lines, e)))
    /\ \A d \in (start + 1)..(e - 1) : NestedTestCode(d) => BlockEnd(d) <= e

\* the line k of the admonition body is neither a nested testcode directive
\* nor a line of the sub-block of one
BodyText(k) ==
    /\ k \in Consumed
    /\ ~NestedTestCode(k)
    /\ \A d \in (start + 1)..(k - 1) : NestedTestCode(d) => BlockEnd(d) <= k

\* the body line k without the indentation of the admonition body
TextPiece(k) ==
    LET l == At(lines, k)
    IN  IF Strip(l) = "" THEN ""
        ELSE IF Len(l) > StartIndent + AdmonitionIndent
        THEN From(l, StartIndent + AdmonitionIndent)
        ELSE Strip(l)

\* the non-blank text of the admonition body from line k on, in source order
RECURSIVE TextFrom(_)
TextFrom(k) ==
    IF k >= i THEN << >>
    ELSE (IF BodyText(k) /\ Strip(TextPiece(k)) # "" THEN <<TextPiece(k)>> ELSE << >>)
             \o TextFrom(k + 1)

\* the text on the directive line after the name
LeadIn ==
    Strip(From(DirRest(Strip(StartLine)), Len(AdmonitionType(Strip(StartLine))) + 2))

\* the one label line of the admonition the last iteration started at
ExpectedLabel ==
    LET name == Capitalized(AdmonitionType(Strip(StartLine)))
        parts == (IF LeadIn # "" THEN <<LeadIn>> ELSE << >>) \o TextFrom(start + 1)
    IN  IF parts = << >> THEN "**" \o name \o "**"
        ELSE "**" \o name \o ":** " \o Join(parts, " ")

\* the body of the testcode directive at line e: its lines up to the last
\* non-blank one, without the indentation of the first
NestedBody(e) ==
    LET last == Max({k \in FirstBody(e)..(BlockEnd(e) - 1) : Strip(At(lines, k)) # ""})
    IN  [m \in 1..(last - FirstBody(e) + 1) |->
            LET l == At(lines, FirstBody(e) + m - 1)
            IN  IF Strip(l) = "" THEN ""
                ELSE IF Len(l) > NestedIndent(e) THEN From(l, NestedIndent(e))
                ELSE LStrip(l)]

\* the fences of the nested testcode directives from line k on that have a
\* body, in source order
RECURSIVE FencesFrom(_)
FencesFrom(k) ==
    IF k >= i THEN << >>
    ELSE (IF NestedTestCode(k) /\ FirstBody(k) < Len(lines)
          THEN <<Fence \o "python", Join(NestedBody(k), "\n"), Fence, "">>
          ELSE << >>)
             \o FencesFrom(k + 1)

Returned == SplitLines(markdown)

IsBlankLine(l) == Strip(l) = ""

(***************************************************************************)
(* C18.  The text returned, when it is not empty, has no two consecutive   *)
(* blank lines and neither starts nor ends with a blank line, and the      *)
(* clean-up pass applied to its lines changes nothing.                     *)
(***************************************************************************)
C18_NoBlankRunInReturnedText ==
    (pc = "done" /\ markdown # "")
    => /\ \A k \in 1..(Len(Returned) - 1) :
              ~(IsBlankLine(Returned[k]) /\ IsBlankLine(Returned[k + 1]))
       /\ ~IsBlankLine(Returned[1])
       /\ ~IsBlankLine(Returned[Len(Returned)])
       /\ Cleaned(Returned) = Returned

\* the document is a testcode, code-block or literal line followed by a body
\* of lines at one indentation and of blank lines, that starts and ends
\* with a line that is not blank
CodeBodyDocument ==
    /\ Len(lines) >= 3
    /\ \/ IsTestCode(Strip(lines[1]))
       \/ IsCodeBlock(Strip(lines[1]))
       \/ IsLiteral(Strip(lines[1]))
    /\ ~IsBlankLine(lines[2])
    /\ ~IsBlankLine(lines[Len(lines)])
    /\ \A k \in 2..Len(lines) :
           \/ IsBlankLine(lines[k])
           \/ /\ Indent(lines[k]) = Indent(lines[2])
              /\ Indent(lines[k]) > Indent(lines[1]) + 1

\* the lines of the text returned between the last two fence lines
FencedBody ==
    LET fences == {k \in 1..Len(Returned) : StartsWith(Returned[k], Fence)}
    IN  IF Cardinality(fences) < 2 THEN << >>
        ELSE SubSeq(Returned, Max(fences \ {Max(fences)}) + 1, Max(fences) - 1)

(***************************************************************************)
(* C20.  For a testcode, code-block or literal-block body the text         *)
(* returned holds, between the fence lines, the body lines in order with   *)
(* every blank line of the body kept as an empty line: a run of k blank    *)
(* lines inside the body is a run of k empty lines in the fence.           *)
(***************************************************************************)
C20_BlankLinesOfBodyKept ==
    (pc = "done" /\ CodeBodyDocument)
    => FencedBody = [k \in 1..(Len(lines) - 1) |->
                        IF IsBlankLine(lines[k + 1]) THEN "" ELSE Strip(lines[k + 1])]

(***************************************************************************)
(* C19.  The inline rewriting is idempotent: applied to the line it        *)
(* emitted for a plain line, it gives that line back unchanged.            *)
(***************************************************************************)
C19_InlineRewriteIdempotent ==
    handler = "plain"
    => InlineRewrite(result[Len(result)]) = result[Len(result)]

\* the line l, trimmed, is a run of n backticks
TickRun(l, n) == n >= 1 /\ Strip(l) = Repeat(Tick, n)

\* the line l is a fence line that carries a language tag
TaggedFenceLine(l) == IsCodeStart(l) /\ FenceLang(l) # ""

\* the step keeps the fence open and takes the current line as body
KeptAsBody ==
    /\ in_code_block'
    /\ code_fence_pattern' = code_fence_pattern
    /\ code_lang' = code_lang
    /\ cells' = cells
    /\ current_lines' = Append(current_lines, NbLine)

(***************************************************************************)
(* C21.  A fence records at its opening the run of n >= 3 backticks of the *)
(* opening line and keeps it while it is open; a step closes the fence     *)
(* only at a line equal, after trimming, to that run; while the fence is   *)
(* open, a line that is a run of another number of backticks and a fence   *)
(* line that carries a language tag are kept as body: the fence stays      *)
(* open with the same run and tag, and no cell is made.                    *)
(***************************************************************************)
C21_ClosedBySameRunOnly ==
    [][ InNbLoop =>
          /\ (~in_code_block /\ in_code_block')
                 => /\ FenceTicks(NbLine) >= 3
                    /\ code_fence_pattern' = Repeat(Tick, FenceTicks(NbLine))
          /\ (in_code_block /\ in_code_block')
                 => code_fence_pattern' = code_fence_pattern
          /\ (in_code_block /\ ~in_code_block')
                 => Strip(NbLine) = code_fence_pattern
          /\ ( /\ in_code_block
               /\ \/ \E n \in 1..Len(NbLine) :
                         TickRun(NbLine, n) /\ n # Len(code_fence_pattern)
                  \/ TaggedFenceLine(NbLine) )
                 => KeptAsBody ]_vars

\* a fence of four backticks kept a line of three backticks and a tagged
\* fence line as its body and was closed by the line of four backticks
C21_Witness ==
    /\ nb_branch = "close"
    /\ nb_lines = <<Fence \o Tick, Fence, Fence \o "py", Fence \o Tick>>
    /\ content = Fence \o "\n" \o Fence \o "py"
    /\ ~in_code_block

(***************************************************************************)
(* C22.  in_code_block and quote_code_block are never both true: the       *)
(* segmenter is outside a fence, inside a plain fence or inside a quoted   *)
(* fence, and in one of the three only.                                    *)
(***************************************************************************)
C22_OneFenceStateAtATime == ~(in_code_block /\ quote_code_block)

\* the step keeps every line of the output buffer and appends at its end
AppendsOnly ==
    /\ Len(result') >= Len(result)
    /\ SubSeq(result', 1, Len(result)) = result

\* the step is the title handler retracting the last emitted line, an
\* overline of the underline character, and appending its three lines
RetractsOverline ==
    /\ branch = "title"
    /\ Overlined(Char(Strip(At(lines, i + 1)), 1))
    /\ Len(result') = Len(result) + 2
    /\ SubSeq(result', 1, Len(result) - 1) = SubSeq(result, 1, Len(result) - 1)

(***************************************************************************)
(* C23.  Every step of the transpile pass keeps the lines of the output    *)
(* buffer as they are and appends at its end, except the title handler     *)
(* when the last emitted line is an overline: it removes that one line and *)
(* nothing else.  The testcode and code-block handlers leave behind, after *)
(* the lines they found, a blank line and their opening fence line, so     *)
(* their removal of trailing blank lines stops at the fence.  The return   *)
(* step leaves the buffer alone.                                           *)
(***************************************************************************)
C23_BufferAppendOnly ==
    [][ pc = "loop" =>
          /\ AppendsOnly \/ RetractsOverline
          /\ branch \in {"testcode", "codeblock"}
                 => /\ Len(result') >= Len(result) + 4
                    /\ result'[Len(result) + 1] = ""
                    /\ StartsWith(result'[Len(result) + 2], Fence)
                    /\ result'[Len(result')] = ""
                    /\ result'[Len(result') - 1] = Fence
          /\ branch = "exit" => result' = result ]_vars

\* a testcode body that ends in a blank line was emitted without it
C23_Witness ==
    /\ handler = "testcode"
    /\ i = Len(lines)
    /\ At(lines, i - 1) = ""
    /\ Emitted = <<"", Fence \o "python", "a", Fence, "">>

\* the line l trimmed, as a sequence: empty when the line is blank
TrimmedLine(l) == IF Strip(l) = "" THEN << >> ELSE <<Strip(l)>>

\* the input lines from the k-th on that are not blank and are not the
\* opening or closing delimiter of a plain fence, trimmed and in input
\* order; open, token and quoted tell the fence the k-th line is in
RECURSIVE KeptFrom(_, _, _, _)
KeptFrom(k, open, token, quoted) ==
    IF k > Len(nb_lines) THEN << >>
    ELSE LET l == nb_lines[k]
         IN  IF StartsWith(l, "> " \o Fence)
             THEN TrimmedLine(l) \o KeptFrom(k + 1, open, token, ~quoted)
             ELSE IF quoted
             THEN TrimmedLine(l) \o KeptFrom(k + 1, open, token, TRUE)
             ELSE IF ~open /\ IsCodeStart(l)
             THEN KeptFrom(k + 1, TRUE, Repeat(Tick, FenceTicks(l)), FALSE)
             ELSE IF open /\ Strip(l) = token
             THEN KeptFrom(k + 1, FALSE, "", FALSE)
             ELSE TrimmedLine(l) \o KeptFrom(k + 1, open, token, FALSE)

\* the lines of the cells cs that are not blank, trimmed, cell after cell
RECURSIVE CellLines(_)
CellLines(cs) ==
    IF cs = << >> THEN << >>
    ELSE LET ls == SplitLines(cs[1].content)
             RECURSIVE Trimmed(_)
             Trimmed(k) == IF k > Len(ls) THEN << >>
                           ELSE TrimmedLine(ls[k]) \o Trimmed(k + 1)
         IN  Trimmed(1) \o CellLines(Tail(cs))

\* the lines kept are, in order, lines of flat, and every other line of
\* flat is a fence line
RECURSIVE Embeds(_, _)
Embeds(kept, flat) ==
    IF flat = << >> THEN kept = << >>
    ELSE \/ kept # << >> /\ kept[1] = flat[1] /\ Embeds(Tail(kept), Tail(flat))
         \/ StartsWith(flat[1], Fence) /\ Embeds(kept, Tail(flat))

(***************************************************************************)
(* C24.  The cells of the notebook returned hold every input line that is  *)
(* not blank and is not the opening or closing delimiter of a plain fence, *)
(* once each and in input order, up to the trimming of white space; the    *)
(* only other lines of the cells are the two fence lines put around a      *)
(* fence body that is kept as prose.  When the input has no such line the  *)
(* segmentation has no cell.                                               *)
(***************************************************************************)
C24_NoContentLostOrReordered ==
    nb_pc = "done" =>
        LET kept == KeptFrom(1, FALSE, "", FALSE)
            flat == CellLines(nb_cells)
        IN  IF cells = << >> THEN kept = << >>
            ELSE /\ Embeds(kept, flat)
                 /\ Len(flat) - Len(kept)
                        \in {2 * n : n \in 0..Cardinality({k \in 1..Len(cells) :
                                                             IsProse(cells[k])})}

\* prose before a fence tagged ini and the body of the fence are in one
\* prose cell, the body between fence lines
C24_Witness ==
    /\ nb_pc = "done"
    /\ nb_lines = <<"b", Fence \o " ini", "a", Fence>>
    /\ nb_cells = <<MarkdownCell("b\n\n" \o Fence \o "ini\na\n" \o Fence)>>

====
